---- MODULE Spec2Model ----
(***************************************************************************)
(* A model of src/app.py, the Streamlit "Tx Simulator" page.               *)
(*                                                                         *)
(* One script run (Rerun) is one pass of app.py from top to bottom: the    *)
(* ABI Decoder tab (lines 89-94) and, when the Simulate button was         *)
(* clicked, the button handler (lines 97-150).  The two st.cache_data      *)
(* caches survive between runs; everything else is rebuilt by each run.    *)
(* The remote endpoints are the environment: each request the run issues   *)
(* gets a response chosen nondeterministically.                            *)
(***************************************************************************)
EXTENDS Integers, Sequences, FiniteSets, TLC

VARIABLES
    now,          \* the cache timer (time.monotonic), in seconds
    ticks,        \* how many times the clock was advanced (bounded)
    simCache,     \* st.cache_data(ttl=300) store of simulate_tx
    nftCache,     \* st.cache_data store of get_nft_image
    simSent,      \* observation: per key, the latest request sent to the simulation endpoint
    nftReturned,  \* observation: the (arguments, value) pairs get_nft_image has returned
    run           \* the widgets' values and everything the latest script run displayed

vars == <<now, ticks, simCache, nftCache, simSent, nftReturned, run>>

(***************************************************************************)
(* Bounds of the model.                                                    *)
(***************************************************************************)
MaxTicks == 2
MaxTransfers == 4

(***************************************************************************)
(* Program constants.                                                      *)
(***************************************************************************)
Ttl == 300
DisplayCap == 3
GasThreshold == 500000
HttpOk == 200

CHAIN_IDS ==
    [Ethereum |-> 1, Polygon |-> 137]

Min(a, b) == IF a < b THEN a ELSE b

(***************************************************************************)
(* Text.  A string the code inspects character by character is a sequence  *)
(* of one-character strings.                                               *)
(***************************************************************************)
HexPrefix == <<"0", "x">>

StartsWithLoose(s, p) == Len(s) >= 1 /\ s[1] = p[1]
StartsWith(s, p) == Len(s) >= Len(p) /\ SubSeq(s, 1, Len(p)) = p

(***************************************************************************)
(* JSON values of a response body.  Each inspected field is a tagged       *)
(* record; t = "absent" is a key the object does not have.                 *)
(***************************************************************************)
Absent == [t |-> "absent", n |-> 0]
Null == [t |-> "null", n |-> 0]
JInt(n) == [t |-> "int", n |-> n]
JObj(n) == [t |-> "object", n |-> n]      \* an object with n members
JArr(n) == [t |-> "array", n |-> n]       \* an array with n members
NoError == [t |-> "absent", s |-> ""]
JErr(s) == [t |-> "str", s |-> s]
NullError == [t |-> "null", s |-> ""]
NoTransfers == [t |-> "absent", items |-> <<>>]
NullTransfers == [t |-> "null", items |-> <<>>]
JTransfers(l) == [t |-> "array", items |-> l]

Transfer(c, id) == [keys |-> {"contract_address", "token_id"}, contract_address |-> c, token_id |-> id]
NoTokenId(c) == [keys |-> {"contract_address"}, contract_address |-> c, token_id |-> 0]

\* A body that is a JSON object.
Body(err, succ, gas, bal, appr, nfts) ==
    [kind |-> "object", mentions |-> FALSE, error |-> err, success |-> succ,
     gas_used |-> gas, balance_changes |-> bal, approvals |-> appr, nft_transfers |-> nfts]

\* A body that is JSON, but not an object: an array, a string or a number.
\* mentions: the array has the element "error" / the string has the substring "error".
Scalar(kind, mentions) ==
    [kind |-> kind, mentions |-> mentions, error |-> NoError, success |-> FALSE,
     gas_used |-> Absent, balance_changes |-> Absent, approvals |-> Absent,
     nft_transfers |-> NoTransfers]

NoBody == Scalar("none", FALSE)

\* What the endpoint answers: the transport outcome, the HTTP status, whether the
\* body parses as JSON, and the parsed body.
Response(net, status, json, body) == [net |-> net, status |-> status, json |-> json, body |-> body]

NoResponse == Response("none", 0, FALSE, NoBody)

(***************************************************************************)
(* st.cache_data (lines 37 and 46).  The store is keyed by the function's  *)
(* arguments; a value is stored when the function returns and nothing is   *)
(* stored when it raises.  With ttl an entry is served while               *)
(* timer() < expires, where expires = timer() at the store + ttl; without  *)
(* ttl it is served for the life of the process.                           *)
(***************************************************************************)
Entries(cache, key) == {e \in cache : e.key = key}

SimFreshAlways(e, t) == TRUE
\* line 37: ttl=300
SimFresh(e, t) == t < e.expires

SimHit(cache, key, t) == \E e \in Entries(cache, key) : SimFresh(e, t)

SimCached(cache, key, t) == (CHOOSE e \in Entries(cache, key) : SimFresh(e, t)).value

\* line 37: the returned value is stored; expired entries are dropped at a store
SimStore(cache, key, value, t) ==
    {e \in cache : e.key /= key /\ SimFresh(e, t)}
        \cup {[key |-> key, value |-> value, expires |-> t + Ttl]}

NftHit(cache, key) == Entries(cache, key) /= {}

NftCached(cache, key) == (CHOOSE e \in Entries(cache, key) : TRUE).value

NftStoreImagesOnly(cache, key, value) ==
    IF value = "None" THEN cache ELSE cache \cup {[key |-> key, value |-> value]}
\* line 46: no ttl, no max_entries; None is a value like any other
NftStore(cache, key, value) == cache \cup {[key |-> key, value |-> value]}

\* lines 37-38: every argument of simulate_tx is part of the key
SimKey(api_key, tx_data, chain_id) == <<api_key, tx_data, chain_id>>

\* lines 46-47: every argument of get_nft_image is part of the key
NftKey(api_key, contract_address, token_id) == <<api_key, contract_address, token_id>>

(***************************************************************************)
(* simulate_tx, lines 38-44.                                               *)
(***************************************************************************)
Raised == [raised |-> TRUE, value |-> NoBody]
Returned(v) == [raised |-> FALSE, value |-> v]

\* line 44: requests.post raises on a transport failure, .json() raises on a body
\* that is not JSON; the HTTP status is not looked at.
PostJson(resp) ==
    IF resp.net /= "ok" THEN Raised
    ELSE IF ~resp.json THEN Raised
    ELSE Returned(resp.body)

\* The cached function: [raised, value, requested, cache].
simulate_tx(cache, t, api_key, tx_data, chain_id, resp) ==
    LET key == SimKey(api_key, tx_data, chain_id) IN
    IF SimHit(cache, key, t)
    THEN [raised |-> FALSE, value |-> SimCached(cache, key, t), requested |-> FALSE,
          cache |-> cache]
    ELSE LET r == PostJson(resp) IN
         [raised |-> r.raised, value |-> r.value, requested |-> TRUE,
          cache |-> IF r.raised THEN cache ELSE SimStore(cache, key, r.value, t)]

\* Whether a call of simulate_tx with these arguments sends a request.
SimNeedsRequest(cache, t, api_key, tx_data, chain_id) ==
    ~SimHit(cache, SimKey(api_key, tx_data, chain_id), t)

(***************************************************************************)
(* get_nft_image, lines 46-54.  A response of the image endpoint is        *)
(* [net, status, image]: image says whether the bytes open as an image.    *)
(***************************************************************************)
NftResponse(net, status, image) == [net |-> net, status |-> status, image |-> image]

NoNftResponse == NftResponse("none", 0, FALSE)

ImageRaised == [raised |-> TRUE, value |-> "None"]
ImageReturned(v) == [raised |-> FALSE, value |-> v]

ImageOrRaise(resp) ==
    IF resp.net /= "ok" THEN ImageRaised
    ELSE IF resp.status = HttpOk /\ resp.image THEN ImageReturned("Image")
    ELSE ImageRaised
\* lines 48-54: requests.get raises on a transport failure, Image.open raises on
\* bytes that are no image, every status but 200 gives None.
ImageOrNone(resp) ==
    IF resp.net /= "ok" THEN ImageRaised
    ELSE IF resp.status = HttpOk
         THEN (IF resp.image THEN ImageReturned("Image") ELSE ImageRaised)
         ELSE ImageReturned("None")

\* The cached function: [raised, value, requested, cache].
get_nft_image(cache, api_key, contract_address, token_id, resp) ==
    LET key == NftKey(api_key, contract_address, token_id) IN
    IF NftHit(cache, key)
    THEN [raised |-> FALSE, value |-> NftCached(cache, key), requested |-> FALSE,
          cache |-> cache]
    ELSE LET r == ImageOrNone(resp) IN
         [raised |-> r.raised, value |-> r.value, requested |-> TRUE,
          cache |-> IF r.raised THEN cache ELSE NftStore(cache, key, r.value)]

(***************************************************************************)
(* decode_abi_if_provided, lines 56-71.  The libraries it calls (json,     *)
(* web3, eth_abi, hexbytes) are modelled by what they do to the inputs:    *)
(* each step returns a value or raises an exception of a named class.      *)
(***************************************************************************)
Rep(c, n) == [i \in 1..n |-> c]

HexDigits ==
    {"0", "1", "2", "3", "4", "5", "6", "7", "8", "9", "a", "b", "c", "d", "e", "f",
     "A", "B", "C", "D", "E", "F"}

Lower(c) ==
    CASE c = "A" -> "a" [] c = "B" -> "b" [] c = "C" -> "c" [] c = "D" -> "d"
      [] c = "E" -> "e" [] c = "F" -> "f" [] OTHER -> c

SelectorBytes == 4
WordBytes == 32
AddressBytes == 20

Drop(s, n) == SubSeq(s, n + 1, Len(s))

\* hexbytes: the "0x"/"0X" prefix is dropped, an odd number of digits is padded with
\* a leading "0", and binascii.unhexlify raises on a character that is no hex digit.
\* A byte is its two digits, in lower case.
HexBody(raw_tx) ==
    LET body == IF StartsWith(raw_tx, <<"0", "x">>) \/ StartsWith(raw_tx, <<"0", "X">>)
                THEN Drop(raw_tx, 2) ELSE raw_tx
    IN IF Len(raw_tx) % 2 = 1 THEN <<"0">> \o body ELSE body

IsHex(digits) == Len(digits) % 2 = 0 /\ \A i \in 1..Len(digits) : digits[i] \in HexDigits

Unhexlify(digits) ==
    [i \in 1..(Len(digits) \div 2) |-> <<Lower(digits[2 * i - 1]), Lower(digits[2 * i])>>]

ZeroByte == <<"0", "0">>

\* web3 to_4byte_hex: the first four bytes, padded on the left with zero bytes
Pad4(bytes) ==
    LET head == SubSeq(bytes, 1, Min(SelectorBytes, Len(bytes)))
    IN Rep(ZeroByte, SelectorBytes - Len(head)) \o head

\* keccak256 of the canonical signature name(type1,...), cut to 4 bytes
Keccak4(name, types) ==
    CASE <<name, types>> = <<"transfer", <<"address", "uint256">>>> ->
            Unhexlify(<<"a", "9", "0", "5", "9", "c", "b", "b">>)
      [] <<name, types>> = <<"balanceOf", <<"address">>>> ->
            Unhexlify(<<"7", "0", "a", "0", "8", "2", "3", "1">>)
      [] <<name, types>> = <<"totalSupply", <<>>>> ->
            Unhexlify(<<"1", "8", "1", "6", "0", "d", "d", "d">>)
      [] <<name, types>> = <<"f", <<"uint257">>>> ->
            Unhexlify(<<"b", "7", "e", "d", "3", "4", "b", "d">>)

InputTypes(fn) == [i \in 1..Len(fn.inputs) |-> fn.inputs[i].type]

FnSelector(fn) == Keccak4(fn.name, InputTypes(fn))

SupportedTypes == {"address", "uint256"}

\* eth_abi, strict: an address word has 12 zero bytes before its 20 bytes
DecodeWord(type, word) ==
    IF type = "address"
    THEN IF SubSeq(word, 1, WordBytes - AddressBytes) = Rep(ZeroByte, WordBytes - AddressBytes)
         THEN [raised |-> FALSE, exc |-> "", value |-> Drop(word, WordBytes - AddressBytes)]
         ELSE [raised |-> TRUE, exc |-> "NonEmptyPaddingBytes", value |-> <<>>]
    ELSE [raised |-> FALSE, exc |-> "", value |-> word]

\* One argument decoded: the rest follows, or the exception leaves.
RECURSIVE DecodeArgs(_, _, _, _)
DecodeNext(inputs, i, data, params, w) ==
    IF w.raised THEN [raised |-> TRUE, exc |-> w.exc, params |-> <<>>]
    ELSE DecodeArgs(inputs, i + 1, Drop(data, WordBytes),
                    Append(params, [name |-> inputs[i].name, value |-> w.value]))

\* The arguments from input i on: [raised, exc, params], params a sequence of
\* [name, value].
DecodeArgs(inputs, i, data, params) ==
    IF i > Len(inputs) THEN [raised |-> FALSE, exc |-> "", params |-> params]
    ELSE IF Len(data) < WordBytes
         THEN [raised |-> TRUE, exc |-> "InsufficientDataBytes", params |-> <<>>]
    ELSE DecodeNext(inputs, i, data, params,
                    DecodeWord(inputs[i].type, SubSeq(data, 1, WordBytes)))

Threw(exc) == [raised |-> TRUE, exc |-> exc, function |-> "", params |-> <<>>]

Functions(abi) == {i \in 1..Len(abi) : abi[i].type = "function"}

\* web3 validate_abi: two functions of an ABI may not have the same selector
Colliding(abi) ==
    \E i, j \in Functions(abi) : i /= j /\ FnSelector(abi[i]) = FnSelector(abi[j])

\* web3 get_function_by_selector: the functions whose selector is the call data's
Matching(abi, data) == {i \in Functions(abi) : FnSelector(abi[i]) = Pad4(data)}

\* lines 65-68
Decoded(fn, args) ==
    IF args.raised THEN Threw(args.exc)
    ELSE [raised |-> FALSE, exc |-> "", function |-> fn.name, params |-> args.params]

\* eth_abi decode of the bytes after the selector
DecodeFn(fn, data) ==
    IF \E k \in 1..Len(fn.inputs) : fn.inputs[k].type \notin SupportedTypes
    THEN Threw("NoEntriesFound")
    ELSE Decoded(fn, DecodeArgs(fn.inputs, 1, Drop(data, SelectorBytes), <<>>))

DecodeCall(abi, data, hits) ==
    IF Cardinality(hits) /= 1 THEN Threw("ValueError")
    ELSE DecodeFn(abi[CHOOSE i \in hits : TRUE], data)

\* line 64: contract.decode_function_input(raw_tx)
DecodeInput(abi, raw_tx) ==
    IF ~IsHex(HexBody(raw_tx)) THEN Threw("binascii.Error")
    ELSE DecodeCall(abi, Unhexlify(HexBody(raw_tx)), Matching(abi, Unhexlify(HexBody(raw_tx))))

\* lines 61-68: [raised, exc, function, params]
Decode(raw_tx, abi_json) ==
    IF ~abi_json.wellformed THEN Threw("JSONDecodeError")                  \* line 61
    ELSE IF abi_json.value.kind /= "array" THEN Threw("ValueError")        \* line 63
    ELSE IF Colliding(abi_json.value.items) THEN Threw("ValueError")       \* line 63
    ELSE DecodeInput(abi_json.value.items, raw_tx)

ExceptionClasses ==
    {"JSONDecodeError", "ValueError", "binascii.Error", "NoEntriesFound",
     "InsufficientDataBytes", "NonEmptyPaddingBytes"}

CatchesValueError(exc) == exc \in {"JSONDecodeError", "ValueError", "binascii.Error"}
\* line 69: except Exception
Catches(exc) == exc \in ExceptionClasses

\* `not abi_json`, lines 57 and 91
AbiEmpty(abi_json) == abi_json.text = ""

\* What decode_abi_if_provided gives back: the dict of lines 65-68, raw_tx itself,
\* or an exception that leaves the function.
Passthrough(raw_tx, warnings) ==
    [raised |-> FALSE, kind |-> "str", raw |-> raw_tx, function |-> "", params |-> <<>>,
     warnings |-> warnings]

\* lines 60-71: the try statement, d what its body did
TryDecode(raw_tx, d) ==
    IF ~d.raised
    THEN [raised |-> FALSE, kind |-> "dict", raw |-> <<>>, function |-> d.function,
          params |-> d.params, warnings |-> 0]
    ELSE IF Catches(d.exc) THEN Passthrough(raw_tx, 1)
    ELSE [raised |-> TRUE, kind |-> "none", raw |-> <<>>, function |-> "",
          params |-> <<>>, warnings |-> 0]

\* lines 56-71
decode_abi_if_provided(raw_tx, abi_json) ==
    IF AbiEmpty(abi_json) THEN Passthrough(raw_tx, 0)
    ELSE TryDecode(raw_tx, Decode(raw_tx, abi_json))

\* lines 92-94: [called, raised, warnings, json, decoded], json = st.json was shown
ShowDecoded(decoded) ==
    [called |-> TRUE, raised |-> decoded.raised, warnings |-> decoded.warnings,
     json |-> decoded.kind = "dict", decoded |-> decoded]

\* lines 89-94
DecoderTab(raw_tx, abi_json) ==
    IF AbiEmpty(abi_json)
    THEN [called |-> FALSE, raised |-> FALSE, warnings |-> 0, json |-> FALSE,
          decoded |-> Passthrough(raw_tx, 0)]
    ELSE ShowDecoded(decode_abi_if_provided(raw_tx, abi_json))

(***************************************************************************)
(* The Simulate button handler, lines 97-150.                              *)
(***************************************************************************)
StartsWith0xLoose(raw_tx) == StartsWithLoose(raw_tx, HexPrefix)
\* line 98: raw_tx.startswith("0x")
StartsWith0x(raw_tx) == StartsWith(raw_tx, HexPrefix)

\* `"error" in result` raises TypeError on a value that is no container.
InSupported(result) == result.kind \in {"object", "array", "string"}

ErrorTruthy(result) ==
    IF result.kind = "object" THEN result.error.t = "str" /\ result.error.s /= ""
    ELSE result.mentions
\* line 108: `"error" in result`: a key of a dict, an element of a list, a substring
\* of a str.
ErrorIn(result) ==
    IF result.kind = "object" THEN result.error.t /= "absent" ELSE result.mentions

ShownAll(nft_transfers) == nft_transfers.items
\* line 126: nft_transfers[:3]
Shown(nft_transfers) ==
    SubSeq(nft_transfers.items, 1, Min(DisplayCap, Len(nft_transfers.items)))

\* line 123: `if nft_transfers:` with the default [] of line 122
TransfersTruthy(nft_transfers) == nft_transfers.t = "array" /\ Len(nft_transfers.items) > 0

\* line 139: result.get("gas_used", 0) > 500000 raises TypeError on None
GasComparable(result) == result.gas_used.t \in {"absent", "int"}

HighGasInclusive(result) == result.gas_used.t = "int" /\ result.gas_used.n >= GasThreshold
\* line 139, where it does not raise
HighGas(result) == result.gas_used.t = "int" /\ result.gas_used.n > GasThreshold

ApprovalsTruthy(result) ==
    result.approvals.t \in {"object", "array"} /\ result.approvals.n > 0
\* line 141: `"approvals" in result`
ApprovalsIn(result) == result.approvals.t /= "absent"

HighGasWarning == "High gas usage (>500k)"
ApprovalsWarning == "New token approvals detected"

\* lines 138-142
Risks(result) ==
    (IF HighGas(result) THEN <<HighGasWarning>> ELSE <<>>)
        \o (IF ApprovalsIn(result) THEN <<ApprovalsWarning>> ELSE <<>>)

\* A fetch is [idx, key, requested, resp, value]: resp is the endpoint's response when
\* a request was sent, value is "raised" when the call raised.
Fetch(i, args, resp, g) ==
    [idx |-> i, key |-> args, requested |-> g.requested,
     resp |-> IF g.requested THEN resp ELSE NoNftResponse,
     value |-> IF g.raised THEN "raised" ELSE g.value]

\* lines 133-135: the image, if any, and the caption
Shows(acc, i, fetch, g) ==
    [cache |-> g.cache,
     fetches |-> Append(acc.fetches, fetch),
     images |-> IF g.value /= "None" THEN Append(acc.images, i) ELSE acc.images,
     captions |-> Append(acc.captions, i),
     raised |-> FALSE]

\* The response to a request with these arguments.
ResponseTo(nftResp, args) == IF args \in DOMAIN nftResp THEN nftResp[args] ELSE NoNftResponse

\* lines 126-135, from entry i on.  acc = [cache, fetches, images, captions, raised].
\* nftResp gives the image endpoint's response to a request with given arguments.
RECURSIVE NftLoop(_, _, _, _, _)
NftStep(api_key, shown, i, nftResp, acc, args, g) ==
    IF g.raised
    THEN [acc EXCEPT !.raised = TRUE,
                     !.fetches = Append(@, Fetch(i, args, ResponseTo(nftResp, args), g))]
    ELSE NftLoop(api_key, shown, i + 1, nftResp,
                 Shows(acc, i, Fetch(i, args, ResponseTo(nftResp, args), g), g))

NftCall(api_key, shown, i, nftResp, acc, args) ==
    NftStep(api_key, shown, i, nftResp, acc, args,
            get_nft_image(acc.cache, args[1], args[2], args[3], ResponseTo(nftResp, args)))

NftLoop(api_key, shown, i, nftResp, acc) ==
    IF i > Len(shown) \/ acc.raised THEN acc
    ELSE IF ~({"contract_address", "token_id"} \subseteq shown[i].keys)
         THEN [acc EXCEPT !.raised = TRUE]     \* KeyError at line 130 or 131
    ELSE NftCall(api_key, shown, i, nftResp, acc,
                 <<api_key, shown[i].contract_address, shown[i].token_id>>)

\* What one run shows and does.  errors: the st.error reports, in order.
Blank ==
    [errors |-> <<>>, results |-> FALSE, status |-> "", balance |-> FALSE,
     transfers |-> 0, fetches |-> <<>>, images |-> <<>>, captions |-> <<>>,
     classified |-> FALSE, risks |-> <<>>,
     simCalled |-> FALSE, simRequested |-> FALSE, simReturned |-> FALSE,
     response |-> NoResponse, result |-> NoBody]

ValidationError == "Transaction data must start with '0x'"
InBandError == "simulation error"
ApiError == "API Error"

\* line 150: the except clause of the handler
Fail(out) == [out EXCEPT !.errors = Append(@, ApiError)]

\* lines 111-147: the body of a result without "error"; nfts is the NFT loop's outcome
Render(out, result, nfts) ==
    LET o1 == [out EXCEPT !.status = IF result.success THEN "Success" ELSE "Reverted",
                          !.balance = result.balance_changes.t /= "absent",
                          !.transfers = Len(result.nft_transfers.items),
                          !.fetches = nfts.fetches, !.images = nfts.images,
                          !.captions = nfts.captions]
    IN IF nfts.raised THEN Fail(o1)
       ELSE IF ~GasComparable(result) THEN Fail(o1)
       ELSE [o1 EXCEPT !.classified = TRUE, !.risks = Risks(result)]

\* Whether the run gets to the NFT loop with this result: lines 108-123.
ReachesTransfers(result) ==
    result.kind = "object" /\ ~ErrorIn(result) /\ TransfersTruthy(result.nft_transfers)

NoFetches(nc) ==
    [cache |-> nc, fetches |-> <<>>, images |-> <<>>, captions |-> <<>>, raised |-> FALSE]

\* lines 122-135
Transfers(result, nc, api_key, nftResp) ==
    IF ReachesTransfers(result)
    THEN NftLoop(api_key, Shown(result.nft_transfers), 1, nftResp, NoFetches(nc))
    ELSE NoFetches(nc)

Shown1(out, sc, nc) == [out |-> out, simCache |-> sc, nftCache |-> nc]

RenderAll(out, result, sc, nfts) == Shown1(Render(out, result, nfts), sc, nfts.cache)

\* lines 108-147, out what the run has shown so far
ShowResult(out, result, sc, nc, api_key, nftResp) ==
    IF ~InSupported(result) THEN Shown1(Fail(out), sc, nc)
    ELSE IF ErrorIn(result)
         THEN (IF result.kind = "object"
               THEN Shown1([out EXCEPT !.errors = <<InBandError>>], sc, nc)
               ELSE Shown1(Fail(out), sc, nc))       \* result['error'] on a list or a str
    ELSE IF result.kind /= "object" THEN Shown1(Fail(out), sc, nc)   \* no .get
    ELSE RenderAll(out, result, sc, Transfers(result, nc, api_key, nftResp))

\* line 103, as observed: whether the call sent a request, and what it got
Called(sim, resp) ==
    [Blank EXCEPT !.simCalled = TRUE, !.simRequested = sim.requested,
                  !.simReturned = ~sim.raised,
                  !.response = IF sim.requested THEN resp ELSE NoResponse,
                  !.result = sim.value]

\* lines 103-150, sim the outcome of the call of simulate_tx
Simulated(sim, nc, api_key, resp, nftResp) ==
    IF sim.raised THEN Shown1(Fail(Called(sim, resp)), sim.cache, nc)
    ELSE ShowResult([Called(sim, resp) EXCEPT !.results = TRUE], sim.value, sim.cache, nc,
                    api_key, nftResp)

\* lines 98-150: [out, simCache, nftCache]
Handler(sc, nc, t, api_key, raw_tx, chain, resp, nftResp) ==
    IF ~StartsWith0x(raw_tx)
    THEN Shown1([Blank EXCEPT !.errors = <<ValidationError>>], sc, nc)
    ELSE Simulated(simulate_tx(sc, t, api_key, raw_tx, CHAIN_IDS[chain], resp), nc, api_key,
                   resp, nftResp)

NeverSent == [t |-> -1, returned |-> FALSE]

\* Observation: the latest request sent for the key before this run, if any.
PriorRequest(sent, key) ==
    IF \E r \in sent : r.key = key
    THEN LET r == CHOOSE r \in sent : r.key = key IN [t |-> r.t, returned |-> r.returned]
    ELSE NeverSent

\* Observation, for each fetch of a run: what get_nft_image returned the last time
\* it was called with the same arguments ("never" if it was not), and whether it
\* has returned for the same contract address and token id under any API key.
Seen(returned, fetches) ==
    [i \in 1..Len(fetches) |->
        LET earlier == returned \cup
                {[key |-> fetches[j].key, value |-> fetches[j].value] :
                    j \in {k \in 1..(i - 1) : fetches[k].value /= "raised"}}
            same == {r \in earlier : r.key = fetches[i].key}
        IN [value |-> IF same = {} THEN "never" ELSE (CHOOSE r \in same : TRUE).value,
            values |-> Cardinality({r.value : r \in same}),
            token |-> \E r \in earlier : /\ r.key[2] = fetches[i].key[2]
                                         /\ r.key[3] = fetches[i].key[3]]]

Init ==
    /\ now = 0
    /\ ticks = 0
    /\ simCache = {}
    /\ nftCache = {}
    /\ simSent = {}
    /\ nftReturned = {}
    /\ run = [at |-> 0, api_key |-> "", chain |-> "Ethereum", raw_tx |-> <<>>,
              abi_json |-> "", clicked |-> FALSE, handled |-> FALSE,
              prior |-> NeverSent, seen |-> <<>>,
              tab |-> [called |-> FALSE, raised |-> FALSE, warnings |-> 0, json |-> FALSE,
                       decoded |-> Passthrough(<<>>, 0)],
              out |-> Blank]

\* The arguments of the get_nft_image calls of a run that may send a request.
Uncached(cache, api_key, shown) ==
    {<<api_key, shown[i].contract_address, shown[i].token_id>> :
        i \in {j \in 1..Len(shown) :
                 ~NftHit(cache, NftKey(api_key, shown[j].contract_address, shown[j].token_id))}}

\* The state after a run: tab is what the ABI Decoder tab did, h what the handler did.
Commit(api_key, chain, raw_tx, abi_json, clicked, tab, h) ==
    /\ run' = [at |-> now, api_key |-> api_key, chain |-> chain, raw_tx |-> raw_tx,
               abi_json |-> abi_json.text, clicked |-> clicked,
               handled |-> clicked /\ ~tab.raised,
               prior |-> IF h.out.simCalled
                         THEN PriorRequest(simSent, <<api_key, raw_tx, CHAIN_IDS[chain]>>)
                         ELSE NeverSent,
               seen |-> Seen(nftReturned, h.out.fetches),
               tab |-> tab,
               out |-> h.out]
    /\ simCache' = h.simCache
    /\ nftCache' = h.nftCache
    /\ simSent' = IF h.out.simRequested
                  THEN {r \in simSent : r.key /= <<api_key, raw_tx, CHAIN_IDS[chain]>>}
                           \cup {[key |-> <<api_key, raw_tx, CHAIN_IDS[chain]>>, t |-> now,
                                  returned |-> h.out.simReturned]}
                  ELSE simSent
    /\ nftReturned' = nftReturned \cup
           {[key |-> h.out.fetches[i].key, value |-> h.out.fetches[i].value] :
                i \in {j \in 1..Len(h.out.fetches) : h.out.fetches[j].value /= "raised"}}
    /\ UNCHANGED <<now, ticks>>

\* An exception that leaves the ABI Decoder tab ends the run before line 97.
Handled(raw_tx, abi_json, clicked) == clicked /\ ~DecoderTab(raw_tx, abi_json).raised

\* Whether the run sends a request to the simulation endpoint.
Asks(api_key, chain, raw_tx, abi_json, clicked) ==
    /\ Handled(raw_tx, abi_json, clicked)
    /\ StartsWith0x(raw_tx)
    /\ SimNeedsRequest(simCache, now, api_key, raw_tx, CHAIN_IDS[chain])

\* The arguments with which the run may send a request to the image endpoint.
AsksImages(api_key, raw_tx, abi_json, clicked, sim) ==
    IF /\ Handled(raw_tx, abi_json, clicked)
       /\ StartsWith0x(raw_tx)
       /\ ~sim.raised
       /\ ReachesTransfers(sim.value)
    THEN Uncached(nftCache, api_key, Shown(sim.value.nft_transfers))
    ELSE {}

\* lines 77-150
Script(api_key, chain, raw_tx, abi_json, clicked, resp, nftResp) ==
    IF Handled(raw_tx, abi_json, clicked)
    THEN Handler(simCache, nftCache, now, api_key, raw_tx, chain, resp, nftResp)
    ELSE Shown1(Blank, simCache, nftCache)

Rerun(api_key, chain, raw_tx, abi_json, clicked, SimSet, NftSet) ==
    /\ clicked => (api_key /= "" /\ raw_tx /= <<>>)       \* line 97: disabled=not (...)
    /\ \E resp \in (IF Asks(api_key, chain, raw_tx, abi_json, clicked) THEN SimSet
                    ELSE {NoResponse}) :
          \E nftResp \in
                [AsksImages(api_key, raw_tx, abi_json, clicked,
                            simulate_tx(simCache, now, api_key, raw_tx, CHAIN_IDS[chain], resp))
                     -> NftSet] :
             Commit(api_key, chain, raw_tx, abi_json, clicked,
                    DecoderTab(raw_tx, abi_json),
                    Script(api_key, chain, raw_tx, abi_json, clicked, resp, nftResp))

\* Time passes between two runs.
Tick(d) ==
    /\ ticks < MaxTicks
    /\ now' = now + d
    /\ ticks' = ticks + 1
    /\ UNCHANGED <<simCache, nftCache, simSent, nftReturned, run>>

(***************************************************************************)
(* Inputs.                                                                 *)
(***************************************************************************)
EmptyAbi == [text |-> "", wellformed |-> FALSE, value |-> [kind |-> "none", items |-> <<>>]]

Tx0xA9 == <<"0", "x", "a", "9">>

\* call data without the prefix, and with what is not quite the prefix
BadPrefixTxs == {<<"a", "9">>, <<"0">>, <<"0", "a">>, <<"x", "0">>, <<"0", "X", "a", "9">>}

TokenA == Transfer("0xC1", 1)
TokenB == Transfer("0xC1", 2)

\* Transfer lists: the first n entries of a few periodic patterns.
Pattern(p, i) ==
    CASE p = 1 -> (IF i % 2 = 1 THEN TokenA ELSE TokenB)
      [] p = 2 -> TokenA
      [] p = 3 -> (IF i = 2 THEN NoTokenId("0xC1") ELSE IF i = 1 THEN TokenA ELSE TokenB)
      [] p = 4 -> (IF i = 1 THEN TokenB ELSE TokenA)

TransferLists == {[i \in 1..n |-> Pattern(p, i)] : p \in 1..4, n \in 0..MaxTransfers}

GasValues == {Absent, Null, JInt(GasThreshold - 1), JInt(GasThreshold), JInt(GasThreshold + 1)}
ApprovalValues == {Absent, Null, JObj(0), JArr(0), JObj(1)}
ErrorValues == {JErr("execution reverted"), JErr(""), NullError}

Risky == <<JInt(GasThreshold + 1), JObj(0)>>
Quiet == <<Absent, Absent>>

PlainBodies ==
    {Body(NoError, TRUE, g, Absent, a, NoTransfers) : g \in GasValues, a \in ApprovalValues}
        \cup {Body(e, TRUE, ga[1], Absent, ga[2], NoTransfers) :
                 e \in ErrorValues, ga \in {Risky, Quiet}}
        \cup {Body(NoError, FALSE, Absent, JArr(1), Absent, NullTransfers)}

TransferBodies ==
    {Body(NoError, TRUE, ga[1], JArr(1), ga[2], JTransfers(l)) :
        ga \in {Risky, Quiet}, l \in TransferLists}
        \cup {Body(JErr("execution reverted"), TRUE, Risky[1], JArr(1), Risky[2],
                   JTransfers([i \in 1..n |-> Pattern(1, i)])) : n \in {1, MaxTransfers}}

OtherBodies ==
    {Scalar(k, m) : k \in {"array", "string"}, m \in BOOLEAN} \cup {Scalar("number", FALSE)}

\* What the simulation endpoint may answer.
Failures ==
    {Response("timeout", 0, FALSE, NoBody),
     Response("ok", 502, FALSE, NoBody),
     Response("ok", HttpOk, FALSE, NoBody),
     Response("ok", 401, TRUE, Body(JErr("invalid API key"), FALSE, Absent, Absent, Absent, NoTransfers)),
     Response("ok", 500, TRUE, Body(NoError, FALSE, Absent, Absent, Absent, NoTransfers))}

RenderResponses ==
    {Response("ok", HttpOk, TRUE, b) : b \in PlainBodies \cup TransferBodies \cup OtherBodies}
        \cup Failures

NftResponses ==
    {NftResponse("ok", HttpOk, TRUE), NftResponse("ok", 404, FALSE),
     NftResponse("timeout", 0, FALSE)}

\* The widgets' values of a run, <<api_key, raw_tx, clicked>>: the button cannot be
\* clicked without an API key and call data.
RenderInputs ==
    {<<"", <<>>, FALSE>>, <<"key1", <<>>, FALSE>>, <<"key1", Tx0xA9, FALSE>>}
        \cup {<<"key1", raw_tx, TRUE>> : raw_tx \in {Tx0xA9} \cup BadPrefixTxs}

(***************************************************************************)
(* The page with one API key and one call data, within one freshness       *)
(* window: what a run shows.                                               *)
(***************************************************************************)
Next ==
    \E in \in RenderInputs :
        Rerun(in[1], "Ethereum", in[2], EmptyAbi, in[3], RenderResponses, NftResponses)

Spec == Init /\ [][Next]_vars

(***************************************************************************)
(* The page over time, with several API keys, call data and chains: what   *)
(* the cache of simulate_tx does.                                          *)
(***************************************************************************)
SimResponses ==
    {Response("ok", HttpOk, TRUE, Body(NoError, TRUE, Absent, Absent, Absent, NoTransfers)),
     Response("ok", HttpOk, TRUE,
              Body(JErr("execution reverted"), FALSE, Absent, Absent, Absent, NoTransfers)),
     Response("timeout", 0, FALSE, NoBody),
     Response("ok", 502, FALSE, NoBody)}

\* <<api_key, raw_tx, chain>>: three keys of the cache, two by two different in
\* one argument or in two
SimInputs ==
    {<<"key1", Tx0xA9, "Ethereum">>, <<"key1", Tx0xA9, "Polygon">>,
     <<"key2", HexPrefix, "Ethereum">>}

NextSim ==
    \/ \E in \in SimInputs :
          Rerun(in[1], in[3], in[2], EmptyAbi, TRUE, SimResponses, NftResponses)
    \/ \E d \in {1, Ttl - 1} : Tick(d)

SpecSim == Init /\ [][NextSim]_vars

(***************************************************************************)
(* The page over time, with two API keys: what the cache of get_nft_image  *)
(* does.                                                                   *)
(***************************************************************************)
ImageResponses ==
    {NftResponse("ok", HttpOk, TRUE), NftResponse("ok", HttpOk, FALSE),
     NftResponse("ok", 404, FALSE), NftResponse("timeout", 0, FALSE)}

TransferResponses ==
    {Response("ok", HttpOk, TRUE,
              Body(NoError, TRUE, Absent, Absent, Absent, JTransfers(<<TokenA, TokenB, TokenA>>)))}

NextNft ==
    \/ \E api_key \in {"key1", "key2"} :
          Rerun(api_key, "Ethereum", Tx0xA9, EmptyAbi, TRUE, TransferResponses, ImageResponses)
    \/ Tick(Ttl)

SpecNft == Init /\ [][NextNft]_vars

(***************************************************************************)
(* The page with an ABI pasted into the ABI Decoder tab: what              *)
(* decode_abi_if_provided does.                                            *)
(***************************************************************************)
Function(name, inputs) == [type |-> "function", name |-> name, inputs |-> inputs]
Event(name) == [type |-> "event", name |-> name, inputs |-> <<>>]
Input(name, type) == [name |-> name, type |-> type]

TransferFn == Function("transfer", <<Input("to", "address"), Input("value", "uint256")>>)
BalanceOfFn == Function("balanceOf", <<Input("owner", "address")>>)
TotalSupplyFn == Function("totalSupply", <<>>)
Uint257Fn == Function("f", <<Input("x", "uint257")>>)

\* An ABI text: whether json.loads parses it, and the value it parses to.
AbiText(text, kind, items) ==
    [text |-> text, wellformed |-> TRUE, value |-> [kind |-> kind, items |-> items]]

AbiDocs ==
    {EmptyAbi,
     [text |-> "[{", wellformed |-> FALSE, value |-> [kind |-> "none", items |-> <<>>]],
     AbiText("{}", "object", <<>>),
     AbiText("[]", "array", <<>>),
     AbiText("[transfer]", "array", <<TransferFn>>),
     AbiText("[Transfer event, transfer, balanceOf, totalSupply]", "array",
             <<Event("Transfer"), TransferFn, BalanceOfFn, TotalSupplyFn>>),
     AbiText("[transfer, transfer]", "array", <<TransferFn, TransferFn>>),
     AbiText("[f(uint257), totalSupply]", "array", <<Uint257Fn, TotalSupplyFn>>)}

SelTransfer == <<"a", "9", "0", "5", "9", "c", "b", "b">>
SelTransferUpper == <<"A", "9", "0", "5", "9", "C", "B", "B">>
SelBalanceOf == <<"7", "0", "a", "0", "8", "2", "3", "1">>
SelTotalSupply == <<"1", "8", "1", "6", "0", "d", "d", "d">>
SelUint257 == <<"b", "7", "e", "d", "3", "4", "b", "d">>
SelUnknown == <<"d", "e", "a", "d", "b", "e", "e", "f">>

\* A 32-byte word, in hex digits: an address, an address with a dirty high byte,
\* a number.
AddressWord == Rep("0", 2 * (WordBytes - AddressBytes)) \o Rep("c", 2 * AddressBytes)
DirtyAddressWord == <<"f", "f">> \o Rep("0", 2 * (WordBytes - AddressBytes) - 2) \o Rep("c", 2 * AddressBytes)
NumberWord == Rep("0", 2 * WordBytes - 1) \o <<"5">>

DecodeTxs ==
    {<<>>,
     HexPrefix,
     Tx0xA9,
     <<"0", "x", "z", "z">>,
     HexPrefix \o SelUnknown,
     HexPrefix \o SelTransfer,
     HexPrefix \o SubSeq(SelTransfer, 1, 6),
     HexPrefix \o SelTransfer \o AddressWord,
     HexPrefix \o SelTransfer \o AddressWord \o NumberWord,
     HexPrefix \o SelTransferUpper \o AddressWord \o NumberWord,
     SelTransfer \o AddressWord \o NumberWord,
     HexPrefix \o SelTransfer \o DirtyAddressWord \o NumberWord,
     HexPrefix \o SelTransfer \o AddressWord \o NumberWord \o <<"0">>,
     HexPrefix \o SelBalanceOf \o AddressWord,
     HexPrefix \o SelTotalSupply,
     HexPrefix \o SelUint257 \o NumberWord}

\* The Simulate button is not clicked in these runs.
NextDecode ==
    \E api_key \in {"", "key1"}, raw_tx \in DecodeTxs, abi_json \in AbiDocs :
        Rerun(api_key, "Ethereum", raw_tx, abi_json, FALSE, Failures, NftResponses)

SpecDecode == Init /\ [][NextDecode]_vars

(***************************************************************************)
(* Properties.                                                             *)
(***************************************************************************)
InSeq(x, seq) == \E i \in 1..Len(seq) : seq[i] = x

Out == run.out
Fetches == run.out.fetches
Result == run.out.result

\* The simulate call's request ended in a network-layer failure: no response, a
\* status outside 2xx, or a body that is not JSON.
NetworkFailure(resp) == resp.net /= "ok" \/ resp.status \notin 200..299 \/ ~resp.json

\* Entry i of the result's transfer list has both keys the loop reads.
WellFormed(i) == {"contract_address", "token_id"} \subseteq Result.nft_transfers.items[i].keys

\* The run got past line 114: the result is rendered as a simulation result.
Rendered == Out.status /= ""

\* C1 (as claimed): a request for a key is never sent less than 300 seconds after
\* the previous request for the same key, whatever that request's outcome.
C1_OneRequestPerWindow ==
    (Out.simRequested /\ run.prior.t >= 0) => run.at - run.prior.t >= Ttl

\* C1 (amended): a request for a key is never sent less than 300 seconds after a
\* request for the same key that returned a JSON body; and a call sends a request
\* whenever no request was sent for the key before, the latest one raised, or the
\* latest one is 300 seconds old or older.
C1_OneRequestPerWindowAfterReturn ==
    /\ (Out.simRequested /\ run.prior.t >= 0 /\ run.prior.returned)
           => run.at - run.prior.t >= Ttl
    /\ (Out.simCalled /\ (run.prior.t < 0 \/ ~run.prior.returned \/ run.at - run.prior.t >= Ttl))
           => Out.simRequested

\* A second call one second before the window closes is served without a request,
\* the cached value being an in-band error.
C1_Witness ==
    /\ Out.simCalled /\ ~Out.simRequested
    /\ run.prior.returned /\ run.at - run.prior.t = Ttl - 1
    /\ Out.errors = <<InBandError>>

\* C2: a click of Simulate with call data that does not start with "0x" reports the
\* validation error, calls neither endpoint and leaves both caches as they were.
C2_NoCallWithoutPrefix ==
    [][(run'.clicked /\ ~StartsWith(run'.raw_tx, HexPrefix)) =>
          /\ run'.out.errors = <<ValidationError>>
          /\ ~run'.out.simCalled /\ ~run'.out.simRequested
          /\ run'.out.fetches = <<>>
          /\ simCache' = simCache /\ nftCache' = nftCache
          /\ simSent' = simSent /\ nftReturned' = nftReturned]_vars

\* Such a click, made when both caches hold entries.
C2_Witness ==
    /\ run.clicked /\ run.raw_tx = <<"0", "X", "a", "9">>
    /\ Out.errors = <<ValidationError>>
    /\ simCache /= {} /\ nftCache /= {}

AbiDoc(text) == CHOOSE d \in AbiDocs : d.text = text

\* The call data has fewer than 4 bytes.
ShortCallData(raw_tx) == Len(HexBody(raw_tx)) < 2 * SelectorBytes

C3_Failed(d) == d.raised \/ ~AbiDoc(run.abi_json).wellformed \/ ShortCallData(run.raw_tx)

C3_Decoded(d, failed) ==
    /\ run.tab.called /\ ~run.tab.raised
    /\ failed => /\ run.tab.warnings = 1
                 /\ run.tab.decoded.kind = "str"
                 /\ run.tab.decoded.raw = run.raw_tx
                 /\ ~run.tab.json
    /\ run.tab.decoded.kind = "dict" =>
           /\ ~failed /\ run.tab.warnings = 0
           /\ run.tab.decoded.function = d.function
           /\ run.tab.decoded.params = d.params

C4_TransportFailureIsApiError ==
    Out.simRequested =>
        /\ NetworkFailure(Out.response) =>
               /\ Out.errors = <<ApiError>>
               /\ ~Rendered /\ ~Out.classified
        /\ (~NetworkFailure(Out.response) /\ Out.response.body.kind = "object"
                /\ Out.response.body.error.t /= "absent") =>
               Out.errors = <<InBandError>>

\* A fetch whose request got a response with a status other than 200.
NonSuccess(f) == f.requested /\ f.resp.net = "ok" /\ f.resp.status /= HttpOk

\* C6: a fetch answered with a non-success status returns None; its transfer gets
\* its caption and no image, the next displayed transfer is fetched, and when
\* nothing else fails no error is shown and the risks are classified.
C6_MissingImageIsSoft ==
    \A i \in 1..Len(Fetches) :
        NonSuccess(Fetches[i]) =>
            /\ Fetches[i].value = "None"
            /\ InSeq(i, Out.captions) /\ ~InSeq(i, Out.images)
            /\ (i < Min(DisplayCap, Out.transfers) /\ WellFormed(i + 1)) => Len(Fetches) > i
            /\ ( /\ \A j \in 1..Len(Fetches) : Fetches[j].value /= "raised"
                 /\ \A j \in 1..Min(DisplayCap, Out.transfers) : WellFormed(j)
                 /\ Result.gas_used.t /= "null" )
                   => (Out.errors = <<>> /\ Out.classified /\ Out.risks = Risks(Result))

\* The first of three displayed transfers has no image, the other two are fetched
\* and shown, and the risks are shown.
C6_Witness ==
    /\ Len(Fetches) = DisplayCap /\ NonSuccess(Fetches[1])
    /\ Out.captions = <<1, 2, 3>> /\ Out.images = <<2, 3>>
    /\ Out.errors = <<>> /\ Len(Out.risks) = 2

\* C7: the fetches of a run are for entries 1, 2, ... of the transfer list, in that
\* order, never beyond the third; when no call fails there are exactly min(n, 3).
C7_FirstThreeOnly ==
    /\ \A i \in 1..Len(Fetches) : Fetches[i].idx = i /\ i <= DisplayCap
    /\ \A i \in 1..Len(Fetches) :
           Fetches[i].key = <<run.api_key, Result.nft_transfers.items[i].contract_address,
                              Result.nft_transfers.items[i].token_id>>
    /\ Len(Fetches) <= Min(Out.transfers, DisplayCap)
    /\ ( /\ Rendered
         /\ \A j \in 1..Len(Fetches) : Fetches[j].value /= "raised"
         /\ \A j \in 1..Min(DisplayCap, Out.transfers) : WellFormed(j) )
           => Len(Fetches) = Min(Out.transfers, DisplayCap)

\* A result with more than three transfers, of which three are fetched.
C7_Witness ==
    /\ Out.transfers = MaxTransfers /\ MaxTransfers > DisplayCap
    /\ Len(Fetches) = DisplayCap /\ Out.captions = <<1, 2, 3>>

\* C8: where the risks are classified, the high-gas warning is shown exactly when
\* gas_used is a number above 500000, and it comes before the approvals warning.
C8_HighGasStrictlyAbove ==
    Out.classified =>
        /\ InSeq(HighGasWarning, Out.risks)
               <=> (Result.gas_used.t = "int" /\ Result.gas_used.n > GasThreshold)
        /\ Result.gas_used = JInt(GasThreshold + 1) => InSeq(HighGasWarning, Out.risks)
        /\ Result.gas_used = JInt(GasThreshold) => ~InSeq(HighGasWarning, Out.risks)
        /\ Result.gas_used = Absent => ~InSeq(HighGasWarning, Out.risks)
        /\ (InSeq(HighGasWarning, Out.risks) /\ InSeq(ApprovalsWarning, Out.risks))
               => Out.risks = <<HighGasWarning, ApprovalsWarning>>

\* gas_used = 500001 with approvals: both warnings, in that order.
C8_Witness ==
    /\ Out.classified /\ Result.gas_used = JInt(GasThreshold + 1)
    /\ Out.risks = <<HighGasWarning, ApprovalsWarning>>

\* C9: where the risks are classified, the approvals warning is shown exactly when
\* the result has an approvals key, whatever its value.
C9_ApprovalsByPresence ==
    Out.classified =>
        (InSeq(ApprovalsWarning, Out.risks) <=> Result.approvals.t /= "absent")

\* An empty approvals object gives the warning.
C9_Witness ==
    /\ Out.classified /\ Result.approvals = JObj(0)
    /\ Out.risks = <<ApprovalsWarning>>

\* C10: a result object with an error key gives the in-band error report and
\* nothing else: no metric, no image fetch, no risk, no API Error.
C10_ErrorOnly ==
    (Out.simReturned /\ Result.kind = "object" /\ Result.error.t /= "absent") =>
        /\ Out.errors = <<InBandError>>
        /\ ~Rendered /\ ~Out.balance
        /\ Fetches = <<>> /\ Out.captions = <<>> /\ Out.images = <<>>
        /\ ~Out.classified /\ Out.risks = <<>>

\* An error response that also carries transfers, high gas and approvals.
C10_Witness ==
    /\ Out.errors = <<InBandError>>
    /\ Len(Result.nft_transfers.items) = MaxTransfers
    /\ Result.gas_used = JInt(GasThreshold + 1) /\ Result.approvals /= Absent

\* C5 (as claimed): once get_nft_image has returned for a contract address and
\* token id, under any API key, no later call for them sends a request.
C5_CachedPerToken ==
    \A i \in 1..Len(Fetches) : run.seen[i].token => ~Fetches[i].requested

\* C5 (amended): once get_nft_image has returned for (api_key, contract address,
\* token id), every later call with the same three arguments returns that value
\* and sends no request, at any later time.
C5_CachedPerArguments ==
    \A i \in 1..Len(Fetches) :
        run.seen[i].value /= "never" =>
            /\ ~Fetches[i].requested
            /\ Fetches[i].value = run.seen[i].value
            /\ run.seen[i].values = 1

\* A missing image, cached as None, is served from the cache two windows later.
C5_Witness ==
    /\ run.at = 2 * Ttl /\ Len(Fetches) = DisplayCap
    /\ \A i \in 1..Len(Fetches) : run.seen[i].value /= "never"
    /\ Fetches[1].value = "None" /\ Fetches[2].value = "Image"

====
